---- MODULE Spec2Model ----
(***************************************************************************)
(* Scan configuration resolution of arp-scan (src/args.rs).                *)
(*                                                                         *)
(* The command line is parsed by the clap grammar of build_args into an    *)
(* ArgMatches map, and ScanOptions::new resolves that map, one `let` after *)
(* the other, into a ScanOptions value or ends the process with            *)
(* process::exit(1) after writing to the error stream.                     *)
(*                                                                         *)
(* Texts that the code parses are sequences of one-character strings, so   *)
(* that splitting and number parsing are computed as the code computes     *)
(* them.  Tokens that the code only compares with literals (profile and    *)
(* output names) are strings.                                              *)
(***************************************************************************)
EXTENDS Integers, Sequences, FiniteSets, TLC

VARIABLES matches, fs, pc, locals, stderr, exit_code, result, file_reads

vars == <<matches, fs, pc, locals, stderr, exit_code, result, file_reads>>

(***************************************************************************)
(* Option<T>: None is the empty sequence, Some(v) the one-element sequence *)
(***************************************************************************)
None == <<>>

Some(v) == <<v>>

Opt(S) == {None} \cup {Some(s) : s \in S}

(***************************************************************************)
(* Bounds of the model                                                     *)
(***************************************************************************)
MaxEntries == 2

(***************************************************************************)
(* Constants of src/args.rs                                                *)
(***************************************************************************)
TIMEOUT_MS_FAST == 800

TIMEOUT_MS_DEFAULT == 2000

HOST_RETRY_DEFAULT == 1

REQUEST_MS_INTERVAL == 10

EXIT_FAILURE == 1

(***************************************************************************)
(* Text helpers                                                            *)
(***************************************************************************)
DecDigits == <<"0", "1", "2", "3", "4", "5", "6", "7", "8", "9">>

HexDigits == DecDigits \o <<"a", "b", "c", "d", "e", "f">>

IsDigit(c, digits) == \E i \in 1..Len(digits) : digits[i] = c

DigitVal(c, digits) == (CHOOSE i \in 1..Len(digits) : digits[i] = c) - 1

AllDigits(text, digits) == \A i \in 1..Len(text) : IsDigit(text[i], digits)

RECURSIVE StripZeros(_)
StripZeros(ds) ==
    IF ds # <<>> /\ Head(ds) = "0" THEN StripZeros(Tail(ds)) ELSE ds

RECURSIVE LexLeq(_, _)
LexLeq(a, b) ==
    IF a = <<>> THEN TRUE
    ELSE IF DigitVal(Head(a), DecDigits) < DigitVal(Head(b), DecDigits) THEN TRUE
    ELSE IF DigitVal(Head(a), DecDigits) > DigitVal(Head(b), DecDigits) THEN FALSE
    ELSE LexLeq(Tail(a), Tail(b))

\* a <= b for two decimal digit strings (any length, b without leading zeros)
DecLeq(a, b) ==
    LET sa == StripZeros(a)
    IN  \/ Len(sa) < Len(b)
        \/ Len(sa) = Len(b) /\ LexLeq(sa, b)

RECURSIVE ToNat(_, _)
ToNat(ds, digits) ==
    IF ds = <<>> THEN 0
    ELSE ToNat(SubSeq(ds, 1, Len(ds) - 1), digits) * Len(digits)
         + DigitVal(ds[Len(ds)], digits)

\* str::split(sep): the pieces between separators, always at least one piece
RECURSIVE Split(_, _)
Split(text, sep) ==
    IF \A i \in 1..Len(text) : text[i] # sep THEN <<text>>
    ELSE LET k == CHOOSE i \in 1..Len(text) :
                      text[i] = sep /\ \A j \in 1..(i - 1) : text[j] # sep
         IN  <<SubSeq(text, 1, k - 1)>> \o Split(SubSeq(text, k + 1, Len(text)), sep)

\* str::lines(): split on "\n", no final empty line, a trailing "\r" removed
StripCr(line) ==
    IF line # <<>> /\ line[Len(line)] = "\r" THEN SubSeq(line, 1, Len(line) - 1)
    ELSE line

Lines(content) ==
    LET pieces == Split(content, "\n")
        kept   == IF pieces[Len(pieces)] = <<>>
                  THEN SubSeq(pieces, 1, Len(pieces) - 1) ELSE pieces
    IN  [i \in 1..Len(kept) |-> StripCr(kept[i])]

RECURSIVE Join(_, _)
Join(pieces, sep) ==
    IF pieces = <<>> THEN <<>>
    ELSE IF Len(pieces) = 1 THEN pieces[1]
    ELSE pieces[1] \o <<sep>> \o Join(Tail(pieces), sep)

(***************************************************************************)
(* Parsers used by the resolvers                                           *)
(***************************************************************************)
U8_MAX == <<"2", "5", "5">>

U16_MAX == <<"6", "5", "5", "3", "5">>

U64_MAX == <<"1", "8", "4", "4", "6", "7", "4", "4", "0", "7",
             "3", "7", "0", "9", "5", "5", "1", "6", "1", "5">>

\* str::parse::<uN>(): optional "+", then one or more decimal digits, no overflow
ParseUnsigned(text, max) ==
    LET body == IF text # <<>> /\ Head(text) = "+" THEN Tail(text) ELSE text
    IN  IF body = <<>> \/ ~AllDigits(body, DecDigits) \/ ~DecLeq(body, max)
        THEN None
        ELSE Some(ToNat(StripZeros(body), DecDigits))

\* u8::from_str_radix(text, 16) with the non-empty check of MacAddr::from_str
ParseHexByte(text) ==
    LET body == IF text # <<>> /\ Head(text) = "+" THEN Tail(text) ELSE text
    IN  IF body = <<>> \/ ~AllDigits(body, HexDigits) \/ Len(StripZeros(body)) > 2
        THEN None
        ELSE Some(ToNat(StripZeros(body), HexDigits))

\* MacAddr::from_str: exactly six ":"-separated hexadecimal bytes
ParseMacAddr(text) ==
    LET parts == Split(text, ":")
    IN  IF Len(parts) = 6 /\ \A i \in 1..6 : ParseHexByte(parts[i]) # None
        THEN Some([i \in 1..6 |-> ParseHexByte(parts[i])[1]])
        ELSE None

\* Ipv4Addr::from_str: four "."-separated decimal octets, at most three
\* digits each, no sign, no leading zero
ParseOctet(text) ==
    IF /\ text # <<>>
       /\ Len(text) <= 3
       /\ AllDigits(text, DecDigits)
       /\ (Len(text) > 1 => Head(text) # "0")
       /\ DecLeq(text, U8_MAX)
    THEN Some(ToNat(text, DecDigits))
    ELSE None

ParseIpv4Addr(text) ==
    LET parts == Split(text, ".")
    IN  IF Len(parts) = 4 /\ \A i \in 1..4 : ParseOctet(parts[i]) # None
        THEN Some([i \in 1..4 |-> ParseOctet(parts[i])[1]])
        ELSE None

\* IpNetwork::from_str on IPv4 text: address, then optionally "/" and a
\* prefix length of at most 32; without a prefix the network is a /32
ParseIpNetwork(text) ==
    LET parts  == Split(text, "/")
        addr   == ParseIpv4Addr(parts[1])
        prefix == IF Len(parts) = 1 THEN Some(32)
                  ELSE ParseUnsigned(parts[2], U8_MAX)
    IN  IF Len(parts) <= 2 /\ addr # None /\ prefix # None /\ prefix[1] <= 32
        THEN Some([ip |-> addr[1], prefix |-> prefix[1]])
        ELSE None

\* crate::time::parse_to_milliseconds: a magnitude followed by a unit
UnitFactor(unit) ==
    IF unit = <<"m", "s">> THEN 1
    ELSE IF unit = <<"s">> THEN 1000
    ELSE 0

parse_to_milliseconds(text) ==
    LET n    == Cardinality({i \in 1..Len(text) :
                    \A j \in 1..i : IsDigit(text[j], DecDigits)})
        mag  == ParseUnsigned(SubSeq(text, 1, n), U64_MAX)
        unit == SubSeq(text, n + 1, Len(text))
    IN  IF mag = None \/ UnitFactor(unit) = 0 THEN None
        ELSE Some(mag[1] * UnitFactor(unit))

(***************************************************************************)
(* ArgMatches, as clap builds it from the grammar of build_args: a map     *)
(* from the names of the supplied arguments to their text                  *)
(***************************************************************************)
ArgNames ==
    {"profile", "interface", "network", "file", "timeout", "source_ip",
     "destination_mac", "source_mac", "numeric", "vlan", "retry_count",
     "random", "interval", "oui-file", "list", "output", "hw_type",
     "hw_addr", "proto_type", "proto_addr", "arp_operation"}

\* ArgMatches::value_of: the text of a supplied argument, None for an
\* argument that was not supplied or a name the grammar does not declare
value_of(name) ==
    IF name \in DOMAIN matches THEN Some(matches[name]) ELSE None

is_present(name) == name \in DOMAIN matches

\* Arg::with_name("file") ... .conflicts_with("network")
\* mutant: the grammar without the conflict between file and network
NoConflictingArgs(m) == FALSE

ConflictingArgs(m) == "file" \in DOMAIN m /\ "network" \in DOMAIN m

\* fs::read_to_string: the content, or None for an io::Error
read_to_string(path) ==
    IF path \in DOMAIN fs THEN Some(fs[path]) ELSE None

(***************************************************************************)
(* Diagnostics written with eprintln!                                      *)
(***************************************************************************)
DiagUsage == <<"error: The argument '--file <FILE_PATH>' cannot be used with '--network <NETWORK_RANGE>'">>

DiagFile == <<"Could not open file {}", "{}">>

DiagNetwork == <<"Expected valid IPv4 network range ({})">>

DiagProfile == <<"Expected correct profile name (default/fast/stealth/chaos)">>

DiagTimeout == <<"Expected correct timeout, {}">>

DiagSourceIp == <<"Expected valid IPv4 as source IP">>

DiagDestinationMac == <<"Expected valid MAC address as destination">>

DiagSourceMac == <<"Expected valid MAC address as source">>

DiagVlan == <<"Expected valid VLAN identifier">>

DiagRetry == <<"Expected positive number for host retry count">>

DiagInterval == <<"Expected correct interval, {}">>

DiagOutput == <<"Expected correct output format (json/yaml/plain)">>

DiagHwType == <<"Expected valid ARP hardware type number">>

DiagHwAddr == <<"Expected valid ARP hardware address length">>

DiagProtoType == <<"Expected valid ARP proto type number">>

DiagProtoAddr == <<"Expected valid ARP hardware address length">>

DiagArpOperation == <<"Expected valid ARP operation number">>

(***************************************************************************)
(* The resolvers of ScanOptions::new, as functions of what they read.      *)
(* A resolver that may end the process returns None where it does.         *)
(***************************************************************************)
ProfileOf(token) ==
    IF token \in {"default", "d"} THEN Some("Default")
    ELSE IF token \in {"fast", "f"} THEN Some("Fast")
    ELSE IF token \in {"stealth", "s"} THEN Some("Stealth")
    ELSE IF token \in {"chaos", "c"} THEN Some("Chaos")
    ELSE None

ResolveProfile(token_opt) ==
    IF token_opt # None THEN ProfileOf(token_opt[1]) ELSE Some("Default")

TimeoutDefault(profile) ==
    IF profile = "Fast" THEN TIMEOUT_MS_FAST ELSE TIMEOUT_MS_DEFAULT

ResolveTimeout(text_opt, profile) ==
    IF text_opt # None THEN parse_to_milliseconds(text_opt[1])
    ELSE Some(TimeoutDefault(profile))

\* mutant: the Stealth profile does not turn hostname resolution off
ResolveHostnameNumericOnly(numeric, profile) == ~numeric

ResolveHostname(numeric, profile) == ~numeric /\ ~(profile = "Stealth")

RetryDefault(profile) ==
    IF profile = "Chaos" THEN HOST_RETRY_DEFAULT * 2 ELSE HOST_RETRY_DEFAULT

\* mutant: the profile default is a floor for the explicit retry count
ResolveRetryAtLeastDefault(text_opt, profile) ==
    IF text_opt # None
    THEN LET parsed == ParseUnsigned(text_opt[1], U64_MAX)
         IN  IF parsed # None /\ parsed[1] < RetryDefault(profile)
             THEN Some(RetryDefault(profile)) ELSE parsed
    ELSE Some(RetryDefault(profile))

ResolveRetry(text_opt, profile) ==
    IF text_opt # None THEN ParseUnsigned(text_opt[1], U64_MAX)
    ELSE Some(RetryDefault(profile))

\* mutant: the Fast profile keeps the base interval
IntervalDefaultNoFast(profile) ==
    IF profile = "Stealth" THEN REQUEST_MS_INTERVAL * 2 ELSE REQUEST_MS_INTERVAL

IntervalDefault(profile) ==
    IF profile = "Stealth" THEN REQUEST_MS_INTERVAL * 2
    ELSE IF profile = "Fast" THEN 0
    ELSE REQUEST_MS_INTERVAL

ResolveInterval(text_opt, profile) ==
    IF text_opt # None THEN parse_to_milliseconds(text_opt[1])
    ELSE Some(IntervalDefault(profile))

OutputOf(token) ==
    IF token = "json" THEN Some("Json")
    ELSE IF token = "yaml" THEN Some("Yaml")
    ELSE IF token \in {"plain", "text"} THEN Some("Plain")
    ELSE None

ResolveOutput(token_opt) ==
    IF token_opt # None THEN OutputOf(token_opt[1]) ELSE Some("Plain")

\* mutant: only the Stealth profile forces randomization
RandomizeTargetsStealthOnly(random, profile) == random \/ profile = "Stealth"

RandomizeTargets(random, profile) ==
    random \/ profile \in {"Stealth", "Chaos"}

ArpHardwareType(n) == [ArpHardwareType |-> n]

EtherType(n) == [EtherType |-> n]

ArpOperation(n) == [ArpOperation |-> n]

\* mutant: entries that do not parse are skipped
RECURSIVE ParseRangesSkipInvalid(_)
ParseRangesSkipInvalid(range_vec) ==
    IF range_vec = <<>> THEN Some(<<>>)
    ELSE LET rest == ParseRangesSkipInvalid(Tail(range_vec))[1]
         IN  Some(ParseIpNetwork(Head(range_vec)) \o rest)

\* the map over range_vec of compute_networks: every entry parsed, in order;
\* None when an entry does not parse (the process exits there)
ParseRanges(range_vec) ==
    IF \E i \in 1..Len(range_vec) : ParseIpNetwork(range_vec[i]) = None
    THEN None
    ELSE Some([i \in 1..Len(range_vec) |-> ParseIpNetwork(range_vec[i])[1]])

(***************************************************************************)
(* Steps                                                                   *)
(***************************************************************************)
\* mutant: the process exits without its diagnostic
AbortSilently(lines) ==
    /\ pc' = "Aborted"
    /\ exit_code' = Some(EXIT_FAILURE)
    /\ UNCHANGED <<matches, fs, locals, result, file_reads, stderr>>

\* process::exit(1) after the diagnostic
Abort(lines) ==
    /\ pc' = "Aborted"
    /\ stderr' = stderr \o lines
    /\ exit_code' = Some(EXIT_FAILURE)
    /\ UNCHANGED <<matches, fs, locals, result, file_reads>>

\* `let name = value;`
Bind(name, value, next) ==
    /\ pc' = next
    /\ locals' = locals @@ (name :> value)
    /\ UNCHANGED <<matches, fs, stderr, exit_code, result, file_reads>>

\* a resolver of the shape Some(text) => parse or exit, None => None
BindParsed(name, parsed, diag, next) ==
    IF parsed = None THEN Abort(diag) ELSE Bind(name, parsed[1], next)

\* App::get_matches on the grammar of build_args
ParseArgs ==
    /\ pc = "parse_args"
    /\ IF ConflictingArgs(matches)
       THEN /\ pc' = "Rejected"
            /\ stderr' = stderr \o DiagUsage
            /\ exit_code' = Some(EXIT_FAILURE)
            /\ UNCHANGED <<matches, fs, locals, result, file_reads>>
       ELSE /\ pc' = "profile"
            /\ UNCHANGED <<matches, fs, locals, stderr, exit_code, result, file_reads>>

Profile ==
    /\ pc = "profile"
    /\ BindParsed("profile", ResolveProfile(value_of("profile")), DiagProfile,
                  "interface_name")

InterfaceName ==
    /\ pc = "interface_name"
    /\ Bind("interface_name", value_of("interface"), "network_range")

ComputeNetworks ==
    /\ pc = "network_range"
    /\ LET file    == value_of("file")
           network == value_of("network")
           reads   == file # None /\ network = None
           content == IF reads THEN read_to_string(file[1]) ELSE None
           ranges  == IF reads THEN
                          (IF content # None THEN Some(Lines(content[1])) ELSE None)
                      ELSE IF file = None /\ network # None
                           THEN Some(Split(network[1], ","))
                      ELSE None
       IN  /\ file_reads' = IF reads THEN Append(file_reads, file[1]) ELSE file_reads
           /\ IF reads /\ content = None
              THEN /\ pc' = "Aborted"
                   /\ stderr' = stderr \o DiagFile
                   /\ exit_code' = Some(EXIT_FAILURE)
                   /\ UNCHANGED locals
              ELSE IF ranges # None /\ ParseRanges(ranges[1]) = None
              THEN /\ pc' = "Aborted"
                   /\ stderr' = stderr \o DiagNetwork
                   /\ exit_code' = Some(EXIT_FAILURE)
                   /\ UNCHANGED locals
              ELSE /\ pc' = "timeout_ms"
                   /\ locals' = locals @@ ("network_range" :>
                          IF ranges = None THEN None ELSE ParseRanges(ranges[1]))
                   /\ UNCHANGED <<stderr, exit_code>>
           /\ UNCHANGED <<matches, fs, result>>

Timeout ==
    /\ pc = "timeout_ms"
    /\ BindParsed("timeout_ms", ResolveTimeout(value_of("timeout"), locals["profile"]),
                  DiagTimeout, "resolve_hostname")

Hostname ==
    /\ pc = "resolve_hostname"
    /\ Bind("resolve_hostname",
            ResolveHostname(is_present("numeric"), locals["profile"]), "source_ipv4")

SourceIp ==
    /\ pc = "source_ipv4"
    /\ LET text == value_of("source_ip")
       IN  IF text = None THEN Bind("source_ipv4", None, "destination_mac")
           ELSE IF ParseIpv4Addr(text[1]) = None THEN Abort(DiagSourceIp)
           ELSE Bind("source_ipv4", ParseIpv4Addr(text[1]), "destination_mac")

DestinationMac ==
    /\ pc = "destination_mac"
    /\ LET text == value_of("destination_mac")
       IN  IF text = None THEN Bind("destination_mac", None, "source_mac")
           ELSE IF ParseMacAddr(text[1]) = None THEN Abort(DiagDestinationMac)
           ELSE Bind("destination_mac", ParseMacAddr(text[1]), "source_mac")

SourceMac ==
    /\ pc = "source_mac"
    /\ LET text == value_of("source_mac")
       IN  IF text = None THEN Bind("source_mac", None, "vlan_id")
           ELSE IF ParseMacAddr(text[1]) = None THEN Abort(DiagSourceMac)
           ELSE Bind("source_mac", ParseMacAddr(text[1]), "vlan_id")

VlanId ==
    /\ pc = "vlan_id"
    /\ LET text == value_of("vlan")
       IN  IF text = None THEN Bind("vlan_id", None, "retry_count")
           ELSE IF ParseUnsigned(text[1], U16_MAX) = None THEN Abort(DiagVlan)
           ELSE Bind("vlan_id", ParseUnsigned(text[1], U16_MAX), "retry_count")

RetryCount ==
    /\ pc = "retry_count"
    /\ BindParsed("retry_count", ResolveRetry(value_of("retry_count"), locals["profile"]),
                  DiagRetry, "interval_ms")

Interval ==
    /\ pc = "interval_ms"
    /\ BindParsed("interval_ms", ResolveInterval(value_of("interval"), locals["profile"]),
                  DiagInterval, "output")

Output ==
    /\ pc = "output"
    /\ BindParsed("output", ResolveOutput(value_of("output")), DiagOutput,
                  "randomize_targets")

Randomize ==
    /\ pc = "randomize_targets"
    /\ Bind("randomize_targets",
            RandomizeTargets(is_present("random"), locals["profile"]), "oui_file")

OuiFile ==
    /\ pc = "oui_file"
    /\ LET file == value_of("oui-file")
       IN  Bind("oui_file",
                IF file # None THEN file[1] ELSE "/usr/share/arp-scan/ieee-oui.csv",
                "hw_type")

HwType ==
    /\ pc = "hw_type"
    /\ LET text == value_of("hw-type")
       IN  IF text = None THEN Bind("hw_type", None, "hw_addr")
           ELSE IF ParseUnsigned(text[1], U16_MAX) = None THEN Abort(DiagHwType)
           ELSE Bind("hw_type",
                     Some(ArpHardwareType(ParseUnsigned(text[1], U16_MAX)[1])), "hw_addr")

HwAddr ==
    /\ pc = "hw_addr"
    /\ LET text == value_of("hw-addr")
       IN  IF text = None THEN Bind("hw_addr", None, "proto_type")
           ELSE IF ParseUnsigned(text[1], U8_MAX) = None THEN Abort(DiagHwAddr)
           ELSE Bind("hw_addr", ParseUnsigned(text[1], U8_MAX), "proto_type")

ProtoType ==
    /\ pc = "proto_type"
    /\ LET text == value_of("proto-type")
       IN  IF text = None THEN Bind("proto_type", None, "proto_addr")
           ELSE IF ParseUnsigned(text[1], U16_MAX) = None THEN Abort(DiagProtoType)
           ELSE Bind("proto_type",
                     Some(EtherType(ParseUnsigned(text[1], U16_MAX)[1])), "proto_addr")

ProtoAddr ==
    /\ pc = "proto_addr"
    /\ LET text == value_of("proto-addr")
       IN  IF text = None THEN Bind("proto_addr", None, "arp_operation")
           ELSE IF ParseUnsigned(text[1], U8_MAX) = None THEN Abort(DiagProtoAddr)
           ELSE Bind("proto_addr", ParseUnsigned(text[1], U8_MAX), "arp_operation")

ArpOp ==
    /\ pc = "arp_operation"
    /\ LET text == value_of("arp-op")
       IN  IF text = None THEN Bind("arp_operation", None, "assemble")
           ELSE IF ParseUnsigned(text[1], U16_MAX) = None THEN Abort(DiagArpOperation)
           ELSE Bind("arp_operation",
                     Some(ArpOperation(ParseUnsigned(text[1], U16_MAX)[1])), "assemble")

\* Arc::new(ScanOptions { ... }), returned to the caller
Assemble ==
    /\ pc = "assemble"
    /\ pc' = "Resolved"
    /\ result' = Some(locals)
    /\ UNCHANGED <<matches, fs, locals, stderr, exit_code, file_reads>>

Next ==
    \/ ParseArgs
    \/ Profile
    \/ InterfaceName
    \/ ComputeNetworks
    \/ Timeout
    \/ Hostname
    \/ SourceIp
    \/ DestinationMac
    \/ SourceMac
    \/ VlanId
    \/ RetryCount
    \/ Interval
    \/ Output
    \/ Randomize
    \/ OuiFile
    \/ HwType
    \/ HwAddr
    \/ ProtoType
    \/ ProtoAddr
    \/ ArpOp
    \/ Assemble

(***************************************************************************)
(* Command lines.  Each specification starts from the command lines of one *)
(* menu: for every argument the set of texts it may be supplied with       *)
(* (None: not supplied), and for the network source the file argument, the *)
(* network argument and the file system together.                          *)
(***************************************************************************)
Flag == Some(<<>>)

Supplied(args) ==
    [name \in {n \in DOMAIN args : args[n] # None} |-> args[name][1]]

RangeFile == "ranges.txt"

NetGood1 == <<"1", ".", "0", ".", "0", ".", "0", "/", "8">>

NetGood2 == <<"2", ".", "2", ".", "2", ".", "2">>

NetBadPrefix == <<"1", ".", "0", ".", "0", ".", "0", "/", "3", "3">>

NetBadText == <<"x">>

NetEntries == {NetGood1, NetGood2, NetBadPrefix, NetBadText, <<>>}

EntryLists(entries) == UNION {[1..n -> entries] : n \in 1..MaxEntries}

NoSource == [file |-> None, network |-> None, fs |-> <<>>]

InlineSource(text) == [file |-> None, network |-> Some(text), fs |-> <<>>]

FileSource(content) ==
    [file |-> Some(RangeFile), network |-> None, fs |-> (RangeFile :> content)]

MissingFile == [file |-> Some(RangeFile), network |-> None, fs |-> <<>>]

BothSources(text, content) ==
    [file |-> Some(RangeFile), network |-> Some(text), fs |-> (RangeFile :> content)]

NetSources ==
    {NoSource, MissingFile, FileSource(<<>>),
     FileSource(NetGood1 \o <<"\r", "\n">> \o NetGood2 \o <<"\r", "\n">>),
     BothSources(NetGood1, NetGood2), BothSources(NetBadText, NetGood2),
     BothSources(NetGood1, NetBadText),
     [file |-> Some(RangeFile), network |-> Some(NetGood1), fs |-> <<>>]}
    \cup {InlineSource(Join(l, ",")) : l \in EntryLists(NetEntries)}
    \cup {FileSource(Join(l, "\n")) : l \in EntryLists(NetEntries)}
    \cup {FileSource(Join(l, "\n") \o <<"\n">>) : l \in EntryLists(NetEntries)}

Ms500 == <<"5", "0", "0", "m", "s">>

Sec3 == <<"3", "s">>

Ms5 == <<"5", "m", "s">>

Sec1 == <<"1", "s">>

BadDuration == <<"s", "o", "o", "n">>

Ipv4Good == <<"1", "0", ".", "0", ".", "0", ".", "4", "2">>

Ipv4Bad == <<"1", "0", ".", "0", ".", "2", "5", "6">>

MacGood == <<"0", "0", ":", "1", "a", ":", "2", "b", ":", "3", "c", ":", "4", "d", ":", "f", "f">>

MacBad == <<"0", "0", ":", "1", "a", ":", "2", "b", ":", "3", "c", ":", "4", "d">>

Num0 == <<"0">>

Num3 == <<"3">>

Num45 == <<"4", "5">>

Num255 == <<"2", "5", "5">>

Num256 == <<"2", "5", "6">>

Num65535 == <<"6", "5", "5", "3", "5">>

Num65536 == <<"6", "5", "5", "3", "6">>

NotANumber == <<"x">>

Negative == <<"-", "1">>

ProfileTokens == {"default", "d", "fast", "f", "stealth", "s", "chaos", "c"}

\* a command line with nothing supplied
EmptyMenu ==
    [profile |-> {None}, interface |-> {None}, net |-> {NoSource},
     timeout |-> {None}, source_ip |-> {None}, destination_mac |-> {None},
     source_mac |-> {None}, numeric |-> {None}, vlan |-> {None},
     retry_count |-> {None}, random |-> {None}, interval |-> {None},
     oui_file |-> {None}, list |-> {None}, output |-> {None},
     hw_type |-> {None}, hw_addr |-> {None}, proto_type |-> {None},
     proto_addr |-> {None}, arp_operation |-> {None}]

Override(menu, changes) ==
    [k \in DOMAIN menu |-> IF k \in DOMAIN changes THEN changes[k] ELSE menu[k]]

InitWith(menu) ==
    /\ \E p \in menu.profile, i \in menu.interface, n \in menu.net,
          t \in menu.timeout, si \in menu.source_ip, dm \in menu.destination_mac,
          sm \in menu.source_mac, nu \in menu.numeric, v \in menu.vlan,
          r \in menu.retry_count, ra \in menu.random, iv \in menu.interval,
          of \in menu.oui_file, l \in menu.list, o \in menu.output,
          ht \in menu.hw_type, ha \in menu.hw_addr, pt \in menu.proto_type,
          pa \in menu.proto_addr, ao \in menu.arp_operation :
          /\ matches = Supplied(
                 [profile |-> p, interface |-> i, network |-> n.network,
                  file |-> n.file, timeout |-> t, source_ip |-> si,
                  destination_mac |-> dm, source_mac |-> sm, numeric |-> nu,
                  vlan |-> v, retry_count |-> r, random |-> ra, interval |-> iv,
                  list |-> l, output |-> o, hw_type |-> ht, hw_addr |-> ha,
                  proto_type |-> pt, proto_addr |-> pa, arp_operation |-> ao]
                 @@ ("oui-file" :> of))
          /\ fs = n.fs
    /\ pc = "parse_args"
    /\ locals = <<>>
    /\ stderr = <<>>
    /\ exit_code = None
    /\ result = None
    /\ file_reads = <<>>

\* every resolver with a text it accepts and a text it refuses
MenuAll ==
    Override(EmptyMenu,
        [profile |-> {Some("chaos"), Some("bogus")},
         net |-> {InlineSource(NetGood1), InlineSource(NetBadText), MissingFile,
                  FileSource(NetGood2 \o <<"\n">>)},
         timeout |-> {None, Some(BadDuration)},
         source_ip |-> {Some(Ipv4Good), Some(Ipv4Bad)},
         destination_mac |-> {Some(MacGood), Some(MacBad)},
         source_mac |-> {None, Some(MacBad)},
         vlan |-> {Some(Num45), Some(Num65536)},
         retry_count |-> {Some(Num3), Some(Negative)},
         interval |-> {None, Some(BadDuration)},
         output |-> {Some("yaml"), Some("xml")},
         hw_type |-> {None, Some(Num3), Some(NotANumber)},
         proto_type |-> {None, Some(Num65535)},
         arp_operation |-> {None, Some(Num65536)}])

\* the profile, the timing arguments and the two switches
MenuTiming ==
    Override(EmptyMenu,
        [profile |-> Opt(ProfileTokens \cup {"bogus"}),
         timeout |-> Opt({Ms500, Sec3, BadDuration}),
         interval |-> Opt({Ms5, Sec1}),
         retry_count |-> Opt({Num0, Num3, NotANumber}),
         numeric |-> {None, Flag},
         random |-> {None, Flag},
         output |-> {None, Some("json")},
         source_ip |-> {None, Some(Ipv4Good)}])

\* the network sources
MenuNet ==
    Override(EmptyMenu,
        [profile |-> {None, Some("f"), Some("bogus")},
         net |-> NetSources])

\* the custom ARP header arguments
MenuHeader ==
    Override(EmptyMenu,
        [hw_type |-> Opt({Num3, Num65536, NotANumber}),
         hw_addr |-> Opt({Num255, Num256, NotANumber}),
         proto_type |-> Opt({Num65535, Negative}),
         proto_addr |-> Opt({Num0, Num256}),
         arp_operation |-> Opt({Num3, Num65536, NotANumber})])

Init == InitWith(MenuAll)

Spec == Init /\ [][Next]_vars

SpecTiming == InitWith(MenuTiming) /\ [][Next]_vars

SpecNet == InitWith(MenuNet) /\ [][Next]_vars

SpecHeader == InitWith(MenuHeader) /\ [][Next]_vars

(***************************************************************************)
(* What the properties speak about                                         *)
(***************************************************************************)
Resolved == pc = "Resolved"

Aborted == pc = "Aborted"

Config == result[1]

SuppliedProfile ==
    IF "profile" \notin DOMAIN matches \/ matches["profile"] \in {"default", "d"}
    THEN "Default"
    ELSE IF matches["profile"] \in {"fast", "f"} THEN "Fast"
    ELSE IF matches["profile"] \in {"stealth", "s"} THEN "Stealth"
    ELSE IF matches["profile"] \in {"chaos", "c"} THEN "Chaos"
    ELSE "none"

OnlyFile == "file" \in DOMAIN matches /\ "network" \notin DOMAIN matches

OnlyInline == "network" \in DOMAIN matches /\ "file" \notin DOMAIN matches

FileUnreadable == OnlyFile /\ matches["file"] \notin DOMAIN fs

\* the entries of the one network source that is supplied and readable
HasEntries == OnlyInline \/ (OnlyFile /\ ~FileUnreadable)

Entries ==
    IF OnlyInline THEN Split(matches["network"], ",")
    ELSE Lines(fs[matches["file"]])

Count(text, c) == Cardinality({i \in 1..Len(text) : text[i] = c})

EntryCount ==
    IF OnlyInline THEN Count(matches["network"], ",") + 1
    ELSE LET content == fs[matches["file"]]
         IN  Count(content, "\n")
             + (IF content # <<>> /\ content[Len(content)] # "\n" THEN 1 ELSE 0)

SomeEntryInvalid == \E i \in 1..Len(Entries) : ParseIpNetwork(Entries[i]) = None

\* the network resolver has run (and the profile resolver before it)
NetworksRan ==
    /\ "interface_name" \in DOMAIN locals
    /\ pc # "network_range"

\* the arguments in the order of their resolvers ("network" stands for the
\* network source, file or inline)
ResolverOrder ==
    <<"profile", "network", "timeout", "source_ip", "destination_mac",
      "source_mac", "vlan", "retry_count", "interval", "output", "hw_type",
      "hw_addr", "proto_type", "proto_addr", "arp_operation">>

\* the argument is supplied with a text that is not valid for its field
InvalidArg(a) ==
    IF a = "network"
    THEN FileUnreadable \/ (HasEntries /\ SomeEntryInvalid)
    ELSE /\ a \in DOMAIN matches
         /\ LET text == matches[a]
            IN  IF a = "profile" THEN text \notin ProfileTokens
                ELSE IF a = "output" THEN text \notin {"json", "yaml", "plain", "text"}
                ELSE IF a \in {"timeout", "interval"}
                     THEN parse_to_milliseconds(text) = None
                ELSE IF a = "source_ip" THEN ParseIpv4Addr(text) = None
                ELSE IF a \in {"destination_mac", "source_mac"}
                     THEN ParseMacAddr(text) = None
                ELSE IF a = "retry_count" THEN ParseUnsigned(text, U64_MAX) = None
                ELSE IF a \in {"hw_addr", "proto_addr"}
                     THEN ParseUnsigned(text, U8_MAX) = None
                ELSE ParseUnsigned(text, U16_MAX) = None

SomeInvalid == \E i \in 1..Len(ResolverOrder) : InvalidArg(ResolverOrder[i])

FirstInvalid ==
    ResolverOrder[CHOOSE i \in 1..Len(ResolverOrder) :
        /\ InvalidArg(ResolverOrder[i])
        /\ \A j \in 1..(i - 1) : ~InvalidArg(ResolverOrder[j])]

DiagnosticOf(a) ==
    IF a = "profile" THEN DiagProfile
    ELSE IF a = "network" THEN (IF FileUnreadable THEN DiagFile ELSE DiagNetwork)
    ELSE IF a = "timeout" THEN DiagTimeout
    ELSE IF a = "source_ip" THEN DiagSourceIp
    ELSE IF a = "destination_mac" THEN DiagDestinationMac
    ELSE IF a = "source_mac" THEN DiagSourceMac
    ELSE IF a = "vlan" THEN DiagVlan
    ELSE IF a = "retry_count" THEN DiagRetry
    ELSE IF a = "interval" THEN DiagInterval
    ELSE IF a = "output" THEN DiagOutput
    ELSE IF a = "hw_type" THEN DiagHwType
    ELSE IF a = "hw_addr" THEN DiagHwAddr
    ELSE IF a = "proto_type" THEN DiagProtoType
    ELSE IF a = "proto_addr" THEN DiagProtoAddr
    ELSE DiagArpOperation

ConfigFields ==
    {"profile", "interface_name", "network_range", "timeout_ms",
     "resolve_hostname", "source_ipv4", "source_mac", "destination_mac",
     "vlan_id", "retry_count", "interval_ms", "randomize_targets", "output",
     "oui_file", "hw_type", "hw_addr", "proto_type", "proto_addr",
     "arp_operation"}

(***************************************************************************)
(* C1  (SpecHeader)                                                        *)
(***************************************************************************)
\* C1: in a resolved configuration, every custom ARP header argument that
\* was supplied (hw-type, hw-addr, proto-type, proto-addr, arp-op) has a
\* text that parses in the width of its field, and the field is Some of the
\* parsed value; a field is None only when its argument was not supplied.
C1_HeaderFieldsFollowArguments ==
    Resolved =>
        /\ IF "hw_type" \in DOMAIN matches
           THEN /\ ParseUnsigned(matches["hw_type"], U16_MAX) # None
                /\ Config["hw_type"] =
                       Some(ArpHardwareType(ParseUnsigned(matches["hw_type"], U16_MAX)[1]))
           ELSE Config["hw_type"] = None
        /\ IF "hw_addr" \in DOMAIN matches
           THEN /\ ParseUnsigned(matches["hw_addr"], U8_MAX) # None
                /\ Config["hw_addr"] = ParseUnsigned(matches["hw_addr"], U8_MAX)
           ELSE Config["hw_addr"] = None
        /\ IF "proto_type" \in DOMAIN matches
           THEN /\ ParseUnsigned(matches["proto_type"], U16_MAX) # None
                /\ Config["proto_type"] =
                       Some(EtherType(ParseUnsigned(matches["proto_type"], U16_MAX)[1]))
           ELSE Config["proto_type"] = None
        /\ IF "proto_addr" \in DOMAIN matches
           THEN /\ ParseUnsigned(matches["proto_addr"], U8_MAX) # None
                /\ Config["proto_addr"] = ParseUnsigned(matches["proto_addr"], U8_MAX)
           ELSE Config["proto_addr"] = None
        /\ IF "arp_operation" \in DOMAIN matches
           THEN /\ ParseUnsigned(matches["arp_operation"], U16_MAX) # None
                /\ Config["arp_operation"] =
                       Some(ArpOperation(ParseUnsigned(matches["arp_operation"], U16_MAX)[1]))
           ELSE Config["arp_operation"] = None

(***************************************************************************)
(* C2  (Spec)                                                              *)
(***************************************************************************)
\* C2 as stated: a run that aborts has written exactly one line to the
\* error stream and exits with code 1; a run that resolves has written
\* nothing.
C2_ExactlyOneLine ==
    /\ Aborted => Len(stderr) = 1 /\ exit_code = Some(1)
    /\ Resolved => stderr = <<>> /\ exit_code = None

\* C2 amended: a run that aborts exits with code 1 after writing exactly
\* one line to the error stream, except for an unreadable range file, where
\* it has written two lines (the file that could not be opened, and the
\* error of the operating system); a run that resolves has written nothing.
C2_OneLineOrTwoForFile ==
    /\ Aborted =>
           /\ exit_code = Some(1)
           /\ Len(stderr) = (IF file_reads # <<>> /\ FileUnreadable THEN 2 ELSE 1)
    /\ Resolved => stderr = <<>> /\ exit_code = None

C2_Witness ==
    /\ Aborted
    /\ FileUnreadable
    /\ stderr = <<"Could not open file {}", "{}">>
    /\ exit_code = Some(1)

(***************************************************************************)
(* C3  (Spec)                                                              *)
(***************************************************************************)
\* C3: Resolved is reached only when every supplied field is valid, and
\* then the complete configuration is returned; once Aborted, no
\* configuration, complete or partial, is returned and nothing runs.
C3_ResolvedOnlyIfAllValid ==
    /\ Resolved =>
           /\ ~SomeInvalid
           /\ result # None
           /\ DOMAIN Config = ConfigFields
    /\ Aborted => result = None /\ ~ENABLED Next

(***************************************************************************)
(* C4  (SpecTiming)                                                        *)
(***************************************************************************)
\* C4: in a resolved configuration, a supplied timeout, interval or retry
\* count is the value of the field, whatever the profile.
C4_ExplicitValueOverrides ==
    Resolved =>
        /\ "timeout" \in DOMAIN matches =>
               Some(Config["timeout_ms"]) = parse_to_milliseconds(matches["timeout"])
        /\ "interval" \in DOMAIN matches =>
               Some(Config["interval_ms"]) = parse_to_milliseconds(matches["interval"])
        /\ "retry_count" \in DOMAIN matches =>
               Some(Config["retry_count"]) = ParseUnsigned(matches["retry_count"], U64_MAX)

C4_Witness ==
    /\ Resolved
    /\ SuppliedProfile = "Chaos"
    /\ "retry_count" \in DOMAIN matches
    /\ matches["retry_count"] = <<"0">>
    /\ Config["retry_count"] = 0
    /\ "timeout" \in DOMAIN matches
    /\ Config["timeout_ms"] = 500

(***************************************************************************)
(* C5  (SpecTiming)                                                        *)
(***************************************************************************)
\* C5: with no timeout, interval or retry argument, the resolved timeout,
\* interval and retry count are those of the profile: Default (or no
\* profile argument) 2000, 10, 1; Fast 800, 0, 1; Stealth 2000, 20, 1;
\* Chaos 2000, 10, 2.
C5_ProfileDefaults ==
    Resolved /\ DOMAIN matches \cap {"timeout", "interval", "retry_count"} = {} =>
        <<Config["timeout_ms"], Config["interval_ms"], Config["retry_count"]>> =
            IF SuppliedProfile = "Fast" THEN <<800, 0, 1>>
            ELSE IF SuppliedProfile = "Stealth" THEN <<2000, 20, 1>>
            ELSE IF SuppliedProfile = "Chaos" THEN <<2000, 10, 2>>
            ELSE <<2000, 10, 1>>

C5_Witness ==
    /\ Resolved
    /\ DOMAIN matches \cap {"timeout", "interval", "retry_count"} = {}
    /\ "profile" \in DOMAIN matches
    /\ matches["profile"] = "fast"
    /\ Config["timeout_ms"] = 800
    /\ Config["interval_ms"] = 0
    /\ Config["retry_count"] = 1

(***************************************************************************)
(* C6  (SpecTiming)                                                        *)
(***************************************************************************)
\* C6: in a resolved configuration, resolve_hostname is false exactly when
\* the numeric switch is present or the profile is Stealth, whatever the
\* other arguments.
C6_ResolveHostname ==
    Resolved =>
        (Config["resolve_hostname"] = FALSE
            <=> ("numeric" \in DOMAIN matches \/ SuppliedProfile = "Stealth"))

C6_Witness ==
    /\ Resolved
    /\ SuppliedProfile = "Stealth"
    /\ "numeric" \notin DOMAIN matches
    /\ "random" \in DOMAIN matches
    /\ "output" \in DOMAIN matches
    /\ Config["resolve_hostname"] = FALSE

(***************************************************************************)
(* C7  (SpecTiming)                                                        *)
(***************************************************************************)
\* C7: in a resolved configuration, randomize_targets is true under
\* Stealth and Chaos, and under Default and Fast it is the presence of the
\* random switch.
C7_RandomizeTargets ==
    Resolved =>
        Config["randomize_targets"] =
            IF SuppliedProfile \in {"Stealth", "Chaos"} THEN TRUE
            ELSE "random" \in DOMAIN matches

C7_Witness ==
    /\ Resolved
    /\ SuppliedProfile = "Chaos"
    /\ "random" \notin DOMAIN matches
    /\ Config["randomize_targets"] = TRUE

(***************************************************************************)
(* C8  (SpecNet)                                                           *)
(***************************************************************************)
\* C8: once the network resolver has run on a range file or an inline
\* list, either some entry is no valid network, the run is aborted and no
\* networks and no configuration exist, or every entry is valid and the
\* networks are the parsed entries, one per entry, in the order of the
\* input.
C8_AllOrNothing ==
    NetworksRan /\ HasEntries =>
        IF SomeEntryInvalid
        THEN /\ Aborted
             /\ "network_range" \notin DOMAIN locals
             /\ result = None
        ELSE /\ "network_range" \in DOMAIN locals
             /\ locals["network_range"] # None
             /\ Len(locals["network_range"][1]) = EntryCount
             /\ \A i \in 1..EntryCount :
                    Some(locals["network_range"][1][i]) = ParseIpNetwork(Entries[i])

C8_Witness ==
    /\ Aborted
    /\ OnlyFile
    /\ stderr = <<"Expected valid IPv4 network range ({})">>
    /\ Len(Entries) = 2
    /\ ParseIpNetwork(Entries[1]) # None
    /\ ParseIpNetwork(Entries[2]) = None

(***************************************************************************)
(* C9  (SpecNet)                                                           *)
(***************************************************************************)
\* C9: a command line with both a range file and an inline network list
\* never reaches a resolver: nothing is parsed, no file is read and no
\* configuration is returned.
C9_BothSourcesRejected ==
    "file" \in DOMAIN matches /\ "network" \in DOMAIN matches =>
        /\ pc \in {"parse_args", "Rejected"}
        /\ locals = <<>>
        /\ file_reads = <<>>
        /\ result = None

C9_Witness ==
    /\ pc = "Rejected"
    /\ "file" \in DOMAIN matches
    /\ "network" \in DOMAIN matches
    /\ exit_code = Some(1)

(***************************************************************************)
(* C10  (Spec)                                                             *)
(***************************************************************************)
\* C10: when a run of the resolvers has ended and some supplied arguments
\* are invalid, the run is aborted, the diagnostic is that of the first
\* invalid argument in the order profile, network ranges, timeout, source
\* IP, destination MAC, source MAC, VLAN, retry, interval, output, ARP
\* header fields, and the range file is not read when the profile is
\* invalid.
C10_EarliestDiagnostic ==
    (Resolved \/ Aborted) /\ SomeInvalid =>
        /\ Aborted
        /\ stderr = DiagnosticOf(FirstInvalid)
        /\ (FirstInvalid = "profile" => file_reads = <<>>)

====
